---- MODULE Spec2Model ----
(***************************************************************************)
(* Model of neo4j_sync: the ingest endpoint (routers/graph.py), the merge  *)
(* engine Neo4jDatabase.ingest_graph and the cycle analysis                *)
(* Neo4jDatabase.analyze_cycles (db.py), and the store gateway             *)
(* AsyncNeo4jClient.execute_query (neo4j_client.py).                       *)
(*                                                                         *)
(* The graph store is a property graph: a bag of nodes and a bag of        *)
(* relationships (bags, so that a duplicate node or relationship is a      *)
(* state the model can tell from a single one).  Every Cypher statement    *)
(* sent through execute_query runs in its own auto-commit transaction:     *)
(* it is applied atomically or, when it fails, not at all.                 *)
(***************************************************************************)
EXTENDS Integers, Sequences, FiniteSets, Bags, TLC

(***************************************************************************)
(* Bounds of the model.                                                    *)
(***************************************************************************)
\* whole ingest calls applied one after the other in SpecMerge
MaxCalls == 2
\* entries of the modules list / edges list of a unit in SpecMerge
MaxMods == 2
MaxEdges == 2
\* direct ingest_graph calls per handler slot in SpecConc, and the entries of
\* their modules list / edges list
MaxConcCalls == 1
MaxConcMods == 1
MaxConcEdges == 2
\* requests to the ingest endpoint in Spec, responses of one batch, and the
\* nodes / edges of one response
MaxRequests == 1
MaxResponses == 2
MaxNodes == 2
MaxSrcEdges == 1
\* analyze_cycles calls in SpecCycles, and the entries of the modules list /
\* edges list of the units that fill its store
MaxAnalyses == 1
MaxCycleMods == 1
MaxCycleEdges == 2
\* passthrough queries in SpecGuard, and the nodes of one of its responses
MaxQueries == 1
MaxGuardNodes == 1

InstanceNames == {"X", "Y"}
ModuleNames == {"A", "B"}

\* Python None, and a Cypher null (a property set to null is not stored)
None == "<None>"
\* a key that a dict does not hold
Absent == "<absent>"

Range(seq) == {seq[i] : i \in 1..Len(seq)}

SeqsUpTo(S, n) == UNION {[1..k -> S] : k \in 0..n}

(***************************************************************************)
(* The store.                                                              *)
(*   node: label, name, version (None: no such property), created          *)
(*   rel : type, from, to (names of the end nodes), instances (<<>> on a   *)
(*         DEPLOYS/DEPLOYED_BY relationship, which has no such property),  *)
(*         created                                                         *)
(***************************************************************************)
EmptyStore == [nodes |-> EmptyBag, rels |-> EmptyBag]

NodesOf(s, label, name) ==
    {n \in BagToSet(s.nodes) : n.label = label /\ n.name = name}

RelsOf(s, type, from, to) ==
    {r \in BagToSet(s.rels) : r.type = type /\ r.from = from /\ r.to = to}

\* mutant of MergeNode: CREATE in place of MERGE
MergeNodeAlways(s, label, name, version, now) ==
    [s EXCEPT !.nodes = @ (+) SetToBag({[label |-> label, name |-> name,
                                         version |-> version, created |-> now]})]

\* mutant of MergeNode: the version is SET on a match too
MergeNodeUpsert(s, label, name, version, now) ==
    LET matched == NodesOf(s, label, name)
        OnMatch(n) == IF n \in matched THEN [n EXCEPT !.version = version] ELSE n
    IN  IF matched # {}
        THEN [s EXCEPT !.nodes = BagOfAll(OnMatch, @)]
        ELSE [s EXCEPT !.nodes = @ (+) SetToBag({[label |-> label, name |-> name,
                                                  version |-> version, created |-> now]})]

\* MERGE (x:label { name: $name }) ON CREATE SET x.version = .., x.created = timestamp()

MergeNode(s, label, name, version, now) ==
    IF NodesOf(s, label, name) # {}
    THEN s
    ELSE [s EXCEPT !.nodes = @ (+) SetToBag({[label |-> label, name |-> name,
                                              version |-> version, created |-> now]})]

\* mutant of MergeRel: ON MATCH SET r.created = timestamp()
MergeRelTouch(s, type, from, to, now) ==
    LET matched == RelsOf(s, type, from, to)
        OnMatch(r) == IF r \in matched THEN [r EXCEPT !.created = now] ELSE r
    IN  IF matched # {}
        THEN [s EXCEPT !.rels = BagOfAll(OnMatch, @)]
        ELSE [s EXCEPT !.rels = @ (+) SetToBag({[type |-> type, from |-> from, to |-> to,
                                                 instances |-> <<>>, created |-> now]})]

\* MERGE (a)-[:type]->(b), no properties
MergeRel(s, type, from, to, now) ==
    IF RelsOf(s, type, from, to) # {}
    THEN s
    ELSE [s EXCEPT !.rels = @ (+) SetToBag({[type |-> type, from |-> from, to |-> to,
                                             instances |-> <<>>, created |-> now]})]

\* mutant of AppendIfAbsent: no membership test
AppendAlways(instances, instance_name) == Append(instances, instance_name)

\* mutant of AppendIfAbsent: $instance_name + r.instances
PrependIfAbsent(instances, instance_name) ==
    IF instance_name \in {instances[i] : i \in 1..Len(instances)}
    THEN instances
    ELSE <<instance_name>> \o instances

\* mutant of AppendIfAbsent: the branches of the CASE swapped
AppendIfPresent(instances, instance_name) ==
    IF instance_name \in {instances[i] : i \in 1..Len(instances)}
    THEN Append(instances, instance_name)
    ELSE instances

\* CASE WHEN $instance_name IN r.instances THEN r.instances
\*      ELSE r.instances + $instance_name END

AppendIfAbsent(instances, instance_name) ==
    IF instance_name \in Range(instances)
    THEN instances
    ELSE Append(instances, instance_name)

\* mutant of MergeDependency: ON MATCH SET r.instances = [$instance_name]
MergeDependencyOverwrite(s, type, from, to, instance_name, now) ==
    LET matched == RelsOf(s, type, from, to)
        OnMatch(r) == IF r \in matched
                      THEN [r EXCEPT !.instances = <<instance_name>>]
                      ELSE r
    IN  IF matched = {}
        THEN [s EXCEPT !.rels = @ (+) SetToBag({[type |-> type, from |-> from, to |-> to,
                                                 instances |-> <<instance_name>>,
                                                 created |-> now]})]
        ELSE [s EXCEPT !.rels = BagOfAll(OnMatch, @)]

\* MERGE (a)-[r:type]->(b)
\*   ON CREATE SET r.created = timestamp(), r.instances = [$instance_name]
\*   ON MATCH SET r.instances = CASE ... END
MergeDependency(s, type, from, to, instance_name, now) ==
    LET matched == RelsOf(s, type, from, to)
        OnMatch(r) == IF r \in matched
                      THEN [r EXCEPT !.instances = AppendIfAbsent(@, instance_name)]
                      ELSE r
    IN  IF matched = {}
        THEN [s EXCEPT !.rels = @ (+) SetToBag({[type |-> type, from |-> from, to |-> to,
                                                 instances |-> <<instance_name>>,
                                                 created |-> now]})]
        ELSE [s EXCEPT !.rels = BagOfAll(OnMatch, @)]

(***************************************************************************)
(* The three statements of ingest_graph.                                   *)
(***************************************************************************)
\* dict.get(key, "unknown"): the default only when the key is missing; a key
\* that holds None gives None, and a property set to null is not stored
GetOrUnknown(value) == IF value = Absent THEN "unknown" ELSE value

InstanceStmt(s, instance_name, now) ==
    MergeNode(s, "Instance", instance_name, None, now)

\* mutant of ModuleStmt: the writes are staged and not yet in the store
ModuleStmtStaged(s, instance_name, module, now) == s

ModuleStmt(s, instance_name, module, now) ==
    LET s1 == MergeNode(s, "Instance", instance_name, None, now)
        s2 == MergeNode(s1, "Module", module.name, GetOrUnknown(module.version), now)
        s3 == MergeRel(s2, "DEPLOYS", instance_name, module.name, now)
    IN  MergeRel(s3, "DEPLOYED_BY", module.name, instance_name, now)

\* mutant of DependencyStmt: the DEPENDS_BY relationship is created with the
\* edge and never updated afterwards
DependencyStmtStaleMirror(s, instance_name, edge, now) ==
    LET s1 == MergeNode(s, "Module", edge.from_name, GetOrUnknown(edge.from_version), now)
        s2 == MergeNode(s1, "Module", edge.to_name, GetOrUnknown(edge.to_version), now)
        s3 == MergeDependency(s2, "DEPENDS_ON", edge.from_name, edge.to_name,
                              instance_name, now)
    IN  IF RelsOf(s3, "DEPENDS_BY", edge.to_name, edge.from_name) # {}
        THEN s3
        ELSE MergeDependency(s3, "DEPENDS_BY", edge.to_name, edge.from_name,
                             instance_name, now)

DependencyStmt(s, instance_name, edge, now) ==
    LET s1 == MergeNode(s, "Module", edge.from_name, GetOrUnknown(edge.from_version), now)
        s2 == MergeNode(s1, "Module", edge.to_name, GetOrUnknown(edge.to_version), now)
        s3 == MergeDependency(s2, "DEPENDS_ON", edge.from_name, edge.to_name,
                              instance_name, now)
    IN  MergeDependency(s3, "DEPENDS_BY", edge.to_name, edge.from_name,
                        instance_name, now)

(***************************************************************************)
(* What the statements return: RETURN count(..) is the number of rows of   *)
(* the statement, one row per binding of its nodes and relationships.      *)
(***************************************************************************)
\* the copies in a bag of the elements of S
Copies(bag, S) == BagCardinality([x \in S |-> CopiesIn(x, bag)])

\* RETURN count(i) as instances_processed
InstancesProcessed(s, instance_name, now) ==
    LET after == InstanceStmt(s, instance_name, now)
    IN  Copies(after.nodes, NodesOf(after, "Instance", instance_name))

\* mutant of ModulesCreated: only a Module node that the statement created counts
ModulesCreatedNew(s, instance_name, module, now) ==
    IF NodesOf(s, "Module", module.name) = {} THEN 1 ELSE 0

\* RETURN count(m) as modules_created, count(i) as relationships_created
ModulesCreated(s, instance_name, module, now) ==
    LET after == ModuleStmt(s, instance_name, module, now)
    IN  Copies(after.nodes, NodesOf(after, "Instance", instance_name))
          * Copies(after.nodes, NodesOf(after, "Module", module.name))
          * Copies(after.rels, RelsOf(after, "DEPLOYS", instance_name, module.name))
          * Copies(after.rels, RelsOf(after, "DEPLOYED_BY", module.name, instance_name))

\* RETURN count(dep_on) as dependencies_created
DependenciesCreated(s, instance_name, edge, now) ==
    LET after == DependencyStmt(s, instance_name, edge, now)
    IN  Copies(after.nodes, NodesOf(after, "Module", edge.from_name))
          * Copies(after.nodes, NodesOf(after, "Module", edge.to_name))
          * Copies(after.rels, RelsOf(after, "DEPENDS_ON", edge.from_name, edge.to_name))
          * Copies(after.rels, RelsOf(after, "DEPENDS_BY", edge.to_name, edge.from_name))

(***************************************************************************)
(* One whole ingest_graph call in which no statement fails: the instance   *)
(* statement, then one statement per module, then one per edge.            *)
(***************************************************************************)
RECURSIVE ModulesFrom(_, _, _, _, _)
ModulesFrom(s, instance_name, modules, i, now) ==
    IF i > Len(modules) THEN s
    ELSE ModulesFrom(ModuleStmt(s, instance_name, modules[i], now),
                     instance_name, modules, i + 1, now)

RECURSIVE EdgesFrom(_, _, _, _, _)
EdgesFrom(s, instance_name, edges, i, now) ==
    IF i > Len(edges) THEN s
    ELSE EdgesFrom(DependencyStmt(s, instance_name, edges[i], now),
                   instance_name, edges, i + 1, now)

IngestAll(s, unit, now) ==
    LET s1 == InstanceStmt(s, unit.instance_name, now)
        s2 == ModulesFrom(s1, unit.instance_name, unit.modules, 1, now)
    IN  EdgesFrom(s2, unit.instance_name, unit.edges, 1, now)

(***************************************************************************)
(* What a claim reads of a store.                                          *)
(***************************************************************************)
\* the store without its created attributes
Graph(s) ==
    [nodes |-> BagOfAll(LAMBDA n : [label |-> n.label, name |-> n.name,
                                    version |-> n.version], s.nodes),
     rels  |-> BagOfAll(LAMBDA r : [type |-> r.type, from |-> r.from, to |-> r.to,
                                    instances |-> r.instances], s.rels)]

DepTypes == {"DEPENDS_ON", "DEPENDS_BY"}

NoDuplicates(seq) == \A i, j \in 1..Len(seq) : seq[i] = seq[j] => i = j

(***************************************************************************)
(* Units handed to ingest_graph directly.                                  *)
(***************************************************************************)
ModuleEntries == [name : ModuleNames, version : {"v1", "v2"}]

EdgeEntries == [from_name : ModuleNames, to_name : ModuleNames,
                from_version : {Absent}, to_version : {Absent}]

Units == [instance_name : InstanceNames,
          modules : SeqsUpTo(ModuleEntries, MaxMods),
          edges : SeqsUpTo(EdgeEntries, MaxEdges)]

\* the units of the interleaved calls: A at version v1 and B with no version
\* key; the edge A->B and the self-loop A->A, whose from-end supplies v2
ConcModuleEntries == {[name |-> "A", version |-> "v1"],
                      [name |-> "B", version |-> Absent]}

ConcEdgeEntries == [from_name : {"A"}, to_name : ModuleNames,
                    from_version : {"v2"}, to_version : {Absent}]

ConcUnits == [instance_name : InstanceNames,
              modules : SeqsUpTo(ConcModuleEntries, MaxConcMods),
              edges : SeqsUpTo(ConcEdgeEntries, MaxConcEdges)]

(***************************************************************************)
(* The payload of the ingest endpoint (models.py): a batch of instance     *)
(* responses, each with a status and, when has_data, a node and an edge    *)
(* list keyed by source-local integer ids.                                 *)
(***************************************************************************)
NodeIds == {1, 2}
\* an id that no node carries
DanglingId == 1 + Cardinality(NodeIds)

\* the nodes the sources report: A at version v1, B with no version, and a
\* node whose label is the empty string
SrcNodes == {[id |-> i, label |-> n[1], version |-> n[2]] :
                i \in NodeIds, n \in {<<"A", "v1">>, <<"B", None>>, <<"", None>>}}

SrcEdges == [from : NodeIds \cup {DanglingId}, to : NodeIds \cup {DanglingId}]

NoData == [has_data |-> FALSE, nodes |-> <<>>, edges |-> <<>>]

GraphData == [has_data : {TRUE},
              nodes : SeqsUpTo(SrcNodes, MaxNodes),
              edges : SeqsUpTo(SrcEdges, MaxSrcEdges)]

\* a response that failed at its source may still carry data
FailedData == [has_data |-> TRUE,
               nodes |-> <<[id |-> 1, label |-> "A", version |-> "v1"]>>,
               edges |-> <<[from |-> 1, to |-> 1]>>]

Responses ==
    [instance : InstanceNames, status : {"success"}, data : GraphData \cup {NoData}]
    \cup [instance : InstanceNames, status : {"error"}, data : {NoData, FailedData}]

(***************************************************************************)
(* The normalizer of the ingest endpoint.                                  *)
(***************************************************************************)
\* str(node.id), str(edge.from_), str(edge.to)
Str(id) == ToString(id)

\* mutant of NormalizeModules: only the nodes that carry a version become
\* modules
NormalizeModulesVersioned(nodes) ==
    LET HasVersion(node) == node.version # None
        kept == SelectSeq(nodes, HasVersion)
    IN  [i \in 1..Len(kept) |-> [name |-> kept[i].label, version |-> kept[i].version]]

\* modules.append({"name": node.label, "version": getattr(node, 'version', 'unknown')}):
\* ModuleNode declares version, so getattr never takes its default
NormalizeModules(nodes) ==
    [i \in 1..Len(nodes) |-> [name |-> nodes[i].label, version |-> nodes[i].version]]

\* id_to_name = {str(node.id): node.label for node in graph_data.nodes}, read
\* with .get(): the last node of an id wins, None for an id of no node
IdToName(nodes, key) ==
    LET at == {i \in 1..Len(nodes) : Str(nodes[i].id) = key}
    IN  IF at = {} THEN None
        ELSE nodes[CHOOSE i \in at : \A j \in at : j <= i].label

\* Python truth of a str-or-None
Truthy(name) == name # None /\ name # ""

\* mutant of Resolved: an edge from a module to itself is rejected
ResolvedNoSelfLoop(from_name, to_name) ==
    Truthy(from_name) /\ Truthy(to_name) /\ from_name # to_name

\* if from_name and to_name
Resolved(from_name, to_name) == Truthy(from_name) /\ Truthy(to_name)

RECURSIVE NormalizeEdgesFrom(_, _, _)
NormalizeEdgesFrom(nodes, edges, i) ==
    IF i > Len(edges) THEN <<>>
    ELSE LET from_name == IdToName(nodes, Str(edges[i].from))
             to_name == IdToName(nodes, Str(edges[i].to))
             rest == NormalizeEdgesFrom(nodes, edges, i + 1)
         IN  IF Resolved(from_name, to_name)
             THEN <<[from_name |-> from_name, to_name |-> to_name,
                     from_version |-> "unknown", to_version |-> "unknown"]>> \o rest
             ELSE rest

Normalize(resp) ==
    [instance_name |-> resp.instance,
     modules |-> NormalizeModules(resp.data.nodes),
     edges |-> NormalizeEdgesFrom(resp.data.nodes, resp.data.edges, 1)]

\* mutant of Skipped: the missing data is not looked at
SkippedStatusOnly(resp) == resp.status # "success"

\* if instance_response.status != "success" or not instance_response.data: continue
Skipped(resp) == resp.status # "success" \/ ~resp.data.has_data

(***************************************************************************)
(* The state.                                                              *)
(***************************************************************************)
Slots == {1, 2}

VARIABLES
    store,      \* the graph store
    clock,      \* timestamp()
    connected,  \* Neo4jDatabase.client is set and client.is_connected
    req,        \* per handler slot: the position and locals of its handler
    started,    \* per handler slot: requests / direct calls started
    seqStore,   \* the store had the direct calls run one after the other
    asserted,   \* <<instance, from, to>> of the edges of the completed calls
    failedAny,  \* a call has failed
    once,       \* SpecMerge: the store as the last call left it when run once
    calls       \* SpecMerge: whole calls applied so far

vars == <<store, clock, connected, req, started, seqStore, asserted, failedAny,
          once, calls>>

NoUnit == [instance_name |-> None, modules |-> <<>>, edges |-> <<>>]

NoCounts == [instances_processed |-> 0, modules_created |-> 0,
             dependencies_created |-> 0, instance_module_relationships |-> 0]

NoResponse == [status |-> "none", code |-> 0, processed_instances |-> 0,
               nodes_created |-> 0, edges_created |-> 0]

\* HTTPException(status_code=500, ...)
Failure == [status |-> "error", code |-> 500, processed_instances |-> 0,
            nodes_created |-> 0, edges_created |-> 0]

\* what analyze_cycles hands to its caller: status "returned" with the dict
\* (error is Absent when the dict has no such key), or "raised"
NoReport == [status |-> "none", cycles_detected |-> FALSE, cycles |-> {},
             responsible_instances |-> <<>>, error |-> Absent]

\* pc: idle, loop (the endpoint between two responses), instance / modules /
\* edges (ingest_graph awaiting that statement), probe / cycle_query /
\* simple_query (analyze_cycles awaiting that query), responded
IdleReq ==
    [pc |-> "idle", via |-> "none", unit |-> NoUnit, mi |-> 1, ei |-> 1,
     counts |-> NoCounts,
     total_modules_created |-> 0, total_dependencies_created |-> 0,
     processed_instances |-> 0,
     response |-> NoResponse,
     report |-> NoReport,
     \* the passthrough: request.query, and the records of its answer
     query |-> Absent, results |-> <<>>,
     \* history of the request, read by the claims only
     taken |-> 0, eligible |-> 0, resolvable |-> <<>>, resolvable_total |-> 0,
     errored |-> FALSE,
     \* history of the analysis: cycle-detection queries sent, the probe failed
     cycle_queries |-> 0, probe_failed |-> FALSE]

StmtPcs == {"instance", "modules", "edges"}

(***************************************************************************)
(* What the claims read of a response, stated from the payload alone.      *)
(***************************************************************************)
HasId(nodes, id) == \E i \in 1..Len(nodes) : nodes[i].id = id

LabelOf(nodes, id) ==
    nodes[CHOOSE i \in 1..Len(nodes) :
            nodes[i].id = id /\ \A j \in 1..Len(nodes) : nodes[j].id = id => j <= i].label

\* the edges whose two endpoint ids are both ids of the node list, as
\* <<label of the from-node, label of the to-node>>
RECURSIVE ResolvableFrom(_, _, _)
ResolvableFrom(nodes, edges, i) ==
    IF i > Len(edges) THEN <<>>
    ELSE LET rest == ResolvableFrom(nodes, edges, i + 1)
         IN  IF HasId(nodes, edges[i].from) /\ HasId(nodes, edges[i].to)
             THEN <<<<LabelOf(nodes, edges[i].from), LabelOf(nodes, edges[i].to)>>>> \o rest
             ELSE rest

Eligible(resp) == resp.status = "success" /\ resp.data.has_data

(***************************************************************************)
(* ingest_graph between two awaits.                                        *)
(***************************************************************************)
\* an exception leaves ingest_graph: except Exception -> HTTPException(500),
\* which the endpoint's own except Exception turns into HTTPException(500)
Raise(q) ==
    [IdleReq EXCEPT !.pc = "responded", !.via = q.via, !.response = Failure]

\* mutant of Enter: ingest_graph without its guard
EnterUnguarded(q, isConnected) == [q EXCEPT !.pc = "instance"]

\* if not cls.client or not cls.client.is_connected: raise HTTPException(500);
\* otherwise on to the instance statement
Enter(q, isConnected) ==
    IF isConnected THEN [q EXCEPT !.pc = "instance"] ELSE Raise(q)

\* return {...}: a direct caller has the counts; the endpoint holds them in
\* `result`, adds them to its totals and goes on to the next response
Return(q) ==
    IF q.via = "direct"
    THEN [IdleReq EXCEPT !.pc = "responded", !.via = "direct", !.counts = q.counts,
              !.response = [status |-> "success", code |-> 200,
                            processed_instances |-> q.counts.instances_processed,
                            nodes_created |-> q.counts.modules_created,
                            edges_created |-> q.counts.dependencies_created]]
    ELSE [q EXCEPT !.pc = "loop", !.unit = NoUnit, !.mi = 1, !.ei = 1,
              !.total_modules_created = @ + q.counts.modules_created,
              !.total_dependencies_created = @ + q.counts.dependencies_created,
              !.processed_instances = @ + 1]

\* mutant of Continue: the loop over the edges runs before the loop over the
\* modules
ContinueEdgesFirst(q) ==
    IF q.ei <= Len(q.unit.edges) THEN [q EXCEPT !.pc = "edges"]
    ELSE IF q.mi <= Len(q.unit.modules) THEN [q EXCEPT !.pc = "modules"]
    ELSE Return(q)

\* after a statement: the next module, the next edge, or the return
Continue(q) ==
    IF q.mi <= Len(q.unit.modules) THEN [q EXCEPT !.pc = "modules"]
    ELSE IF q.ei <= Len(q.unit.edges) THEN [q EXCEPT !.pc = "edges"]
    ELSE Return(q)

\* mutant of OnStmtError: the exception is caught inside the loop, which goes on
OnStmtErrorSwallow(q) ==
    Continue([q EXCEPT !.errored = TRUE,
                       !.mi = IF q.pc = "modules" THEN @ + 1 ELSE @,
                       !.ei = IF q.pc = "edges" THEN @ + 1 ELSE @])

\* the awaited statement raised
OnStmtError(q) == [Raise(q) EXCEPT !.errored = TRUE]

\* the edges of a unit whose call has just returned
AssertedBy(q, q2) ==
    IF q2.pc \in StmtPcs THEN {}
    ELSE {<<q.unit.instance_name, e.from_name, e.to_name>> : e \in Range(q.unit.edges)}

(***************************************************************************)
(* The handlers, one action per step between two awaits.                   *)
(***************************************************************************)
\* a direct call of Neo4jDatabase.ingest_graph(instance_name, modules, edges)
CallIngest(r, unit) ==
    /\ req[r].pc \in {"idle", "responded"}
    /\ started[r] < MaxConcCalls
    /\ req' = [req EXCEPT ![r] =
                  Enter([IdleReq EXCEPT !.via = "direct", !.unit = unit], connected)]
    /\ started' = [started EXCEPT ![r] = @ + 1]
    /\ seqStore' = IngestAll(seqStore, unit, clock)
    /\ clock' = clock + 1
    /\ failedAny' = (failedAny \/ ~connected)
    /\ UNCHANGED <<store, connected, asserted, once, calls>>

\* POST /api/graph/ingest: the handler enters its loop over payload.responses
StartRequest(r) ==
    /\ req[r].pc \in {"idle", "responded"}
    /\ started[r] < MaxRequests
    /\ req' = [req EXCEPT ![r] = [IdleReq EXCEPT !.pc = "loop", !.via = "router"]]
    /\ started' = [started EXCEPT ![r] = @ + 1]
    /\ clock' = clock + 1
    /\ UNCHANGED <<store, connected, seqStore, asserted, failedAny, once, calls>>

\* the next response of the batch is skipped
RouterSkip(r, resp) ==
    /\ req[r].pc = "loop"
    /\ req[r].taken < MaxResponses
    /\ Skipped(resp)
    /\ req' = [req EXCEPT ![r].taken = @ + 1,
                          ![r].eligible = @ + IF Eligible(resp) THEN 1 ELSE 0]
    /\ UNCHANGED <<store, clock, connected, started, seqStore, asserted, failedAny,
                   once, calls>>

\* the next response of the batch is normalized and handed to ingest_graph
RouterNormalize(r, resp) ==
    /\ req[r].pc = "loop"
    /\ req[r].taken < MaxResponses
    /\ ~Skipped(resp)
    /\ LET resolvable == ResolvableFrom(resp.data.nodes, resp.data.edges, 1)
           q == [req[r] EXCEPT !.unit = Normalize(resp),
                               !.counts = NoCounts,
                               !.taken = @ + 1,
                               !.eligible = @ + IF Eligible(resp) THEN 1 ELSE 0,
                               !.resolvable = resolvable,
                               !.resolvable_total = @ + Len(resolvable)]
       IN  req' = [req EXCEPT ![r] = Enter(q, connected)]
    /\ failedAny' = (failedAny \/ ~connected)
    /\ UNCHANGED <<store, clock, connected, started, seqStore, asserted, once, calls>>

\* Step 1: the instance statement succeeds
ExecInstance(r) ==
    /\ req[r].pc = "instance"
    /\ connected
    /\ store' = InstanceStmt(store, req[r].unit.instance_name, clock)
    /\ LET q2 == Continue([req[r] EXCEPT !.counts.instances_processed =
                                InstancesProcessed(store, req[r].unit.instance_name, clock)])
       IN  /\ req' = [req EXCEPT ![r] = q2]
           /\ asserted' = asserted \cup AssertedBy(req[r], q2)
    /\ UNCHANGED <<clock, connected, started, seqStore, failedAny, once, calls>>

\* Step 2: the statement of modules[mi] succeeds
ExecModule(r) ==
    /\ req[r].pc = "modules"
    /\ connected
    /\ store' = ModuleStmt(store, req[r].unit.instance_name,
                           req[r].unit.modules[req[r].mi], clock)
    /\ LET rows == ModulesCreated(store, req[r].unit.instance_name,
                                  req[r].unit.modules[req[r].mi], clock)
           q2 == Continue([req[r] EXCEPT !.counts.modules_created = @ + rows,
                                         !.counts.instance_module_relationships = @ + rows,
                                         !.mi = @ + 1])
       IN  /\ req' = [req EXCEPT ![r] = q2]
           /\ asserted' = asserted \cup AssertedBy(req[r], q2)
    /\ UNCHANGED <<clock, connected, started, seqStore, failedAny, once, calls>>

\* Step 3: the statement of edges[ei] succeeds
ExecDependency(r) ==
    /\ req[r].pc = "edges"
    /\ connected
    /\ store' = DependencyStmt(store, req[r].unit.instance_name,
                               req[r].unit.edges[req[r].ei], clock)
    /\ LET rows == DependenciesCreated(store, req[r].unit.instance_name,
                                       req[r].unit.edges[req[r].ei], clock)
           q2 == Continue([req[r] EXCEPT !.counts.dependencies_created = @ + rows,
                                         !.ei = @ + 1])
       IN  /\ req' = [req EXCEPT ![r] = q2]
           /\ asserted' = asserted \cup AssertedBy(req[r], q2)
    /\ UNCHANGED <<clock, connected, started, seqStore, failedAny, once, calls>>

\* the awaited statement fails (a store error, or the client not connected):
\* its transaction leaves the store as it was
ExecFails(r) ==
    /\ req[r].pc \in StmtPcs
    /\ req' = [req EXCEPT ![r] = OnStmtError(@)]
    /\ failedAny' = TRUE
    /\ UNCHANGED <<store, clock, connected, started, seqStore, asserted, once, calls>>

\* the batch is exhausted: IngestResponse(status="success", ...)
RouterRespond(r) ==
    /\ req[r].pc = "loop"
    /\ req' = [req EXCEPT ![r].pc = "responded",
                          ![r].response = [status |-> "success", code |-> 200,
                              processed_instances |-> req[r].processed_instances,
                              nodes_created |-> req[r].total_modules_created,
                              edges_created |-> req[r].total_dependencies_created]]
    /\ UNCHANGED <<store, clock, connected, started, seqStore, asserted, failedAny,
                   once, calls>>

\* shutdown: Neo4jDatabase.close()
Close ==
    /\ connected
    /\ connected' = FALSE
    /\ UNCHANGED <<store, clock, req, started, seqStore, asserted, failedAny,
                   once, calls>>

InitHandlers ==
    /\ store = EmptyStore
    /\ clock = 1
    /\ connected = TRUE
    /\ req = [r \in Slots |-> IdleReq]
    /\ started = [r \in Slots |-> 0]
    /\ seqStore = EmptyStore
    /\ asserted = {}
    /\ failedAny = FALSE
    /\ once = EmptyStore
    /\ calls = 0

(***************************************************************************)
(* Spec: requests to the ingest endpoint, one at a time.                   *)
(***************************************************************************)
Init == InitHandlers

Next ==
    \/ StartRequest(1)
    \/ \E resp \in Responses : RouterSkip(1, resp)
    \/ \E resp \in Responses : RouterNormalize(1, resp)
    \/ ExecInstance(1)
    \/ ExecModule(1)
    \/ ExecDependency(1)
    \/ ExecFails(1)
    \/ RouterRespond(1)
    \/ Close

Spec == Init /\ [][Next]_vars

(***************************************************************************)
(* SpecConc: direct ingest_graph calls of two handlers, their statements   *)
(* interleaved in any order.                                               *)
(***************************************************************************)
NextConc ==
    \E r \in Slots :
        \/ \E unit \in ConcUnits : CallIngest(r, unit)
        \/ ExecInstance(r)
        \/ ExecModule(r)
        \/ ExecDependency(r)
        \/ ExecFails(r)

SpecConc == InitHandlers /\ [][NextConc]_vars

(***************************************************************************)
(* SpecMerge: whole ingest calls, one after the other.                     *)
(***************************************************************************)
\* ingest_graph(unit), completed
Ingest(unit) ==
    /\ calls < MaxCalls
    /\ connected
    /\ store' = IngestAll(store, unit, clock)
    /\ once' = store'
    /\ clock' = clock + 1
    /\ calls' = calls + 1
    /\ UNCHANGED <<connected, req, started, seqStore, asserted, failedAny>>

\* ingest_graph(unit) completed, then ingest_graph(unit) again
IngestTwice(unit) ==
    /\ calls < MaxCalls
    /\ connected
    /\ once' = IngestAll(store, unit, clock)
    /\ store' = IngestAll(once', unit, clock + 1)
    /\ clock' = clock + 2
    /\ calls' = calls + 1
    /\ UNCHANGED <<connected, req, started, seqStore, asserted, failedAny>>

NextMerge == \E unit \in Units : Ingest(unit) \/ IngestTwice(unit)

SpecMerge == InitHandlers /\ [][NextMerge]_vars

(***************************************************************************)
(* SpecPerm: whole ingest calls, each next to the same call with the       *)
(* entries of its lists in another order.                                  *)
(***************************************************************************)
\* the units of SpecPerm: any two modules, and the edges between A and B
PermUnits == [instance_name : InstanceNames,
              modules : SeqsUpTo(ModuleEntries, MaxMods),
              edges : SeqsUpTo({e \in EdgeEntries : e.from_name # e.to_name}, MaxEdges)]

\* the orders of n entries
Perms(n) == {f \in [1..n -> 1..n] : \A i, j \in 1..n : f[i] = f[j] => i = j}

Permute(seq, f) == [i \in 1..Len(seq) |-> seq[f[i]]]

\* ingest_graph(unit) completed; `once` is the store had the lists been given
\* in the orders fm and fe
IngestPermuted(unit, fm, fe) ==
    /\ calls < MaxCalls
    /\ connected
    /\ store' = IngestAll(store, unit, clock)
    /\ once' = IngestAll(store, [unit EXCEPT !.modules = Permute(@, fm),
                                             !.edges = Permute(@, fe)], clock)
    /\ clock' = clock + 1
    /\ calls' = calls + 1
    /\ UNCHANGED <<connected, req, started, seqStore, asserted, failedAny>>

NextPerm ==
    \E unit \in PermUnits :
        \/ Ingest(unit)
        \/ \E fm \in Perms(Len(unit.modules)), fe \in Perms(Len(unit.edges)) :
               IngestPermuted(unit, fm, fe)

SpecPerm == InitHandlers /\ [][NextPerm]_vars

(***************************************************************************)
(* Cycle analysis: Neo4jDatabase.analyze_cycles.                           *)
(***************************************************************************)
CycleModuleNames == {"A", "B", "C"}

CycleModuleEntries == [name : CycleModuleNames, version : {Absent}]

\* the edges of the units that fill the store: the ring A->B->C->A and B->A
CycleEdgeEntries ==
    {[from_name |-> e[1], to_name |-> e[2], from_version |-> Absent, to_version |-> Absent] :
        e \in {<<"A", "B">>, <<"B", "C">>, <<"C", "A">>, <<"B", "A">>}}

CycleUnits == [instance_name : InstanceNames,
               modules : SeqsUpTo(CycleModuleEntries, MaxCycleMods),
               edges : SeqsUpTo(CycleEdgeEntries, MaxCycleEdges)]

\* MATCH (m:Module) WITH collect(m) AS modules
ModulesIn(s) == {n.name : n \in {m \in BagToSet(s.nodes) : m.label = "Module"}}

\* {relTypes: ['DEPENDS_ON']}
DependsOn(s) ==
    {<<rel.from, rel.to>> : rel \in {d \in BagToSet(s.rels) : d.type = "DEPENDS_ON"}}

\* the paths from -> .. -> to along DEPENDS_ON that pass no module twice, as
\* the names of their nodes
SimplePaths(s, from, to) ==
    {p \in UNION {[1..k -> ModulesIn(s)] : k \in 1..Cardinality(ModulesIn(s))} :
        /\ p[1] = from
        /\ p[Len(p)] = to
        /\ \A i, j \in 1..Len(p) : p[i] = p[j] => i = j
        /\ \A i \in 1..(Len(p) - 1) : <<p[i], p[i + 1]>> \in DependsOn(s)}

\* one shortest path (among at most three modules without self-loops there
\* is one only)
ShortestPath(s, from, to) ==
    CHOOSE p \in SimplePaths(s, from, to) :
        \A other \in SimplePaths(s, from, to) : Len(p) <= Len(other)

\* CALL apoc.nodes.cycles(modules, {relTypes: ['DEPENDS_ON']}) YIELD path: for
\* every start module and every DEPENDS_ON relationship leaving it, the
\* relationship followed by a shortest path from its end back to the start; the
\* path begins and ends at the start node.  nodes(path), as names.
ApocNodesCycles(s) ==
    {<<e[1]>> \o ShortestPath(s, e[2], e[1]) :
        e \in {d \in DependsOn(s) : SimplePaths(s, d[2], d[1]) # {}}}

\* mutant of DeployingInstances: the WHERE clause is missing
DeployingInstancesAny(s, moduleNames) ==
    {rel.from : rel \in {d \in BagToSet(s.rels) : d.type = "DEPLOYS"}}

\* MATCH (i:Instance)-[:DEPLOYS]->(m:Module) WHERE m.name IN moduleNames
\* ... collect(DISTINCT i.name) AS deployingInstances
DeployingInstances(s, moduleNames) ==
    {rel.from : rel \in {d \in BagToSet(s.rels) :
                            d.type = "DEPLOYS" /\ d.to \in Range(moduleNames)}}

\* the rows of simple_cycle_query, one per moduleNames: a path that no
\* (i)-[:DEPLOYS]->(m) matches has no row
SimpleCycleRows(s) ==
    {[moduleNames |-> p, deployingInstances |-> DeployingInstances(s, p)] :
        p \in {c \in ApocNodesCycles(s) :
                  Len(c) > 0 /\ DeployingInstances(s, c) # {}}}

\* the instance names in ascending order of str
NameOrder == <<"X", "Y">>

\* sorted(list(all_responsible_instances))
Sorted(names) == SelectSeq(NameOrder, LAMBDA n : n \in names)

\* mutant of CycleReport: cycles_detected = len(simple_results) >= 0
CycleReportAlwaysDetected(rows) ==
    [status |-> "returned",
     cycles_detected |-> TRUE,
     cycles |-> {row.moduleNames \o <<row.moduleNames[1]>> : row \in rows},
     responsible_instances |-> Sorted(UNION {row.deployingInstances : row \in rows}),
     error |-> Absent]

\* the loop over simple_results and the returned dict.  cycles is the list of
\* the cycle_path of each row, in the order of the rows, which the store
\* chooses: it is kept as the set of its elements (no two rows have the same
\* moduleNames).
CycleReport(rows) ==
    LET cycles == {row.moduleNames \o <<row.moduleNames[1]>> : row \in rows}
        all_responsible_instances == UNION {row.deployingInstances : row \in rows}
    IN  [status |-> "returned",
         cycles_detected |-> (Cardinality(cycles) > 0),
         cycles |-> cycles,
         responsible_instances |-> Sorted(all_responsible_instances),
         error |-> Absent]

\* {"cycles_detected": False, "cycles": [], "responsible_instances": [], "error": ..}
Degraded(error) ==
    [status |-> "returned", cycles_detected |-> FALSE, cycles |-> {},
     responsible_instances |-> <<>>, error |-> error]

\* raise HTTPException(status_code=500, detail="Database not connected")
Raised == [NoReport EXCEPT !.status = "raised"]

\* mutant of OnProbeError: the failed probe is logged and the analysis goes on
OnProbeErrorIgnore(q) == [q EXCEPT !.pc = "cycle_query", !.probe_failed = TRUE]

\* except Exception as apoc_error: return {...}
OnProbeError(q) ==
    [q EXCEPT !.pc = "responded", !.probe_failed = TRUE,
              !.report = Degraded("APOC procedures not available")]

\* a call of analyze_cycles: the guard, then on to the probe
CallAnalyze(r) ==
    /\ req[r].pc \in {"idle", "responded"}
    /\ started[r] < MaxAnalyses
    /\ req' = [req EXCEPT ![r] =
                  IF connected
                  THEN [IdleReq EXCEPT !.pc = "probe", !.via = "analyze"]
                  ELSE [IdleReq EXCEPT !.pc = "responded", !.via = "analyze",
                                       !.report = Raised]]
    /\ started' = [started EXCEPT ![r] = @ + 1]
    /\ UNCHANGED <<store, clock, connected, seqStore, asserted, failedAny, once, calls>>

\* RETURN apoc.version() succeeds: the capability is there
ProbeOk(r) ==
    /\ req[r].pc = "probe"
    /\ connected
    /\ req' = [req EXCEPT ![r].pc = "cycle_query"]
    /\ UNCHANGED <<store, clock, connected, started, seqStore, asserted, failedAny,
                   once, calls>>

\* the probe raises: the capability is missing, the store fails, or the
\* client has been closed
ProbeFails(r) ==
    /\ req[r].pc = "probe"
    /\ req' = [req EXCEPT ![r] = OnProbeError(@)]
    /\ UNCHANGED <<store, clock, connected, started, seqStore, asserted, failedAny,
                   once, calls>>

\* cycle_query succeeds; what its loop collects is overwritten below
CycleQueryOk(r) ==
    /\ req[r].pc = "cycle_query"
    /\ connected
    /\ req' = [req EXCEPT ![r].pc = "simple_query", ![r].cycle_queries = @ + 1]
    /\ UNCHANGED <<store, clock, connected, started, seqStore, asserted, failedAny,
                   once, calls>>

\* simple_cycle_query succeeds: the report is built from its rows
SimpleQueryOk(r) ==
    /\ req[r].pc = "simple_query"
    /\ connected
    /\ req' = [req EXCEPT ![r].pc = "responded", ![r].cycle_queries = @ + 1,
                          ![r].report = CycleReport(SimpleCycleRows(store))]
    /\ UNCHANGED <<store, clock, connected, started, seqStore, asserted, failedAny,
                   once, calls>>

\* cycle_query or simple_cycle_query raises: except Exception as e: return {...}
QueryFails(r) ==
    /\ req[r].pc \in {"cycle_query", "simple_query"}
    /\ req' = [req EXCEPT ![r].pc = "responded", ![r].cycle_queries = @ + 1,
                          ![r].errored = TRUE,
                          ![r].report = Degraded("Cycle analysis failed")]
    /\ UNCHANGED <<store, clock, connected, started, seqStore, asserted, failedAny,
                   once, calls>>

(***************************************************************************)
(* SpecCycles: whole ingest calls fill the store while analyze_cycles      *)
(* runs, query by query.                                                   *)
(***************************************************************************)
NextCycles ==
    \/ \E unit \in CycleUnits : Ingest(unit)
    \/ CallAnalyze(1)
    \/ ProbeOk(1)
    \/ ProbeFails(1)
    \/ CycleQueryOk(1)
    \/ SimpleQueryOk(1)
    \/ QueryFails(1)
    \/ Close

SpecCycles == InitHandlers /\ [][NextCycles]_vars

(***************************************************************************)
(* SpecGuard: the ingest endpoint in one handler and the query passthrough *)
(* POST /query in another, with the shutdown at any moment.                *)
(***************************************************************************)
\* request.query: a read (the node count of /stats) and a write
CountNodes == "MATCH (n) RETURN count(n) as count"
DeleteAll == "MATCH (n) DETACH DELETE n"
Queries == {CountNodes, DeleteAll}

\* the store after the query's transaction
RunQuery(s, query) == IF query = DeleteAll THEN EmptyStore ELSE s

\* the records the query returns
QueryResults(s, query) ==
    IF query = CountNodes THEN <<[count |-> BagCardinality(s.nodes)]>> ELSE <<>>

\* Neo4jDatabase.execute_query: raise HTTPException(500) when the client is
\* absent or not connected, otherwise hand the query to the client
EnterQuery(q, isConnected) ==
    IF isConnected THEN [q EXCEPT !.pc = "query"] ELSE Raise(q)

\* POST /query: the handler calls Neo4jDatabase.execute_query(request.query)
QueryRequest(r, query) ==
    /\ req[r].pc \in {"idle", "responded"}
    /\ started[r] < MaxQueries
    /\ req' = [req EXCEPT ![r] =
                  EnterQuery([IdleReq EXCEPT !.via = "query", !.query = query], connected)]
    /\ started' = [started EXCEPT ![r] = @ + 1]
    /\ failedAny' = (failedAny \/ ~connected)
    /\ UNCHANGED <<store, clock, connected, seqStore, asserted, once, calls>>

\* the client runs the query: QueryResponse(results=results, ...)
QueryOk(r) ==
    /\ req[r].pc = "query"
    /\ connected
    /\ store' = RunQuery(store, req[r].query)
    /\ req' = [req EXCEPT ![r].pc = "responded",
                          ![r].response = [NoResponse EXCEPT !.status = "success",
                                                             !.code = 200],
                          ![r].results = QueryResults(store, req[r].query)]
    /\ UNCHANGED <<clock, connected, started, seqStore, asserted, failedAny, once, calls>>

\* the client raises (not connected, or a store error): "Query error: ..."
QueryRaises(r) ==
    /\ req[r].pc = "query"
    /\ req' = [req EXCEPT ![r] = OnStmtError(@)]
    /\ failedAny' = TRUE
    /\ UNCHANGED <<store, clock, connected, started, seqStore, asserted, once, calls>>

\* the responses of the batches sent while the passthrough is in use
GuardResponses == {resp \in Responses : Len(resp.data.nodes) <= MaxGuardNodes}

NextGuard ==
    \/ StartRequest(1)
    \/ \E resp \in GuardResponses : RouterSkip(1, resp)
    \/ \E resp \in GuardResponses : RouterNormalize(1, resp)
    \/ ExecInstance(1)
    \/ ExecModule(1)
    \/ ExecDependency(1)
    \/ ExecFails(1)
    \/ RouterRespond(1)
    \/ \E query \in Queries : QueryRequest(2, query)
    \/ QueryOk(2)
    \/ QueryRaises(2)
    \/ Close

SpecGuard == InitHandlers /\ [][NextGuard]_vars

(***************************************************************************)
(* The claims.                                                             *)
(***************************************************************************)
Nodes(s) == BagToSet(s.nodes)
Rels(s) == BagToSet(s.rels)

IsPrefix(a, b) == Len(a) <= Len(b) /\ \A i \in 1..Len(a) : a[i] = b[i]

Quiescent == \A r \in Slots : req[r].pc \in {"idle", "responded"}

\* whole calls that SpecMerge ran twice
TwiceCalls == clock - 1 - calls

\* C1: running ingest on a unit twice in succession leaves the same nodes
\* (with versions), relationships and instances lists as running it once, and
\* no instances list holds the same instance name twice.
C1_Idempotent ==
    /\ Graph(store) = Graph(once)
    /\ \A rel \in Rels(store) : NoDuplicates(rel.instances)

\* C1 witness: a unit was ingested twice on top of another instance's ingest,
\* and an edge carries both instances.
C1_Witness ==
    /\ calls = 2
    /\ TwiceCalls >= 1
    /\ \E rel \in Rels(store) : rel.type = "DEPENDS_ON" /\ Len(rel.instances) = 2

\* C2: in every reachable state (mid-call, after a failed call, under
\* interleaved calls) DEPENDS_ON(A->B) exists iff DEPENDS_BY(B->A) exists with
\* the identical instances list, and DEPLOYS(I->M) exists iff DEPLOYED_BY(M->I)
\* exists.
C2_MirrorSymmetry ==
    /\ \A rel \in Rels(store) :
          /\ rel.type = "DEPENDS_ON" =>
                \E m \in RelsOf(store, "DEPENDS_BY", rel.to, rel.from) :
                    m.instances = rel.instances
          /\ rel.type = "DEPENDS_BY" =>
                \E m \in RelsOf(store, "DEPENDS_ON", rel.to, rel.from) :
                    m.instances = rel.instances
          /\ rel.type = "DEPLOYS" => RelsOf(store, "DEPLOYED_BY", rel.to, rel.from) # {}
          /\ rel.type = "DEPLOYED_BY" => RelsOf(store, "DEPLOYS", rel.to, rel.from) # {}

\* C2 witness: one call has failed, another is in the middle of its statements,
\* and an edge pair carries two instances.
C2_Witness ==
    /\ failedAny
    /\ \E r \in Slots : req[r].pc \in StmtPcs
    /\ \E rel \in Rels(store) : rel.type = "DEPENDS_BY" /\ Len(rel.instances) = 2

\* C3: across every step, the instances list of an existing dependency edge is
\* a prefix of its list after the step, which is at most one name longer.
C3_ProvenanceMonotonic ==
    [][\A rel \in Rels(store) :
          rel.type \in DepTypes =>
             \E after \in RelsOf(store', rel.type, rel.from, rel.to) :
                 /\ IsPrefix(rel.instances, after.instances)
                 /\ Len(after.instances) <= Len(rel.instances) + 1]_vars

\* C3 witness: an edge that one instance created has had a second instance
\* appended.
C3_Witness ==
    \E rel \in Rels(store) : rel.type = "DEPENDS_ON" /\ rel.instances = <<"Y", "X">>

\* the instance names on the DEPENDS_ON relationships from -> to
Provenance(s, from, to) ==
    UNION {Range(rel.instances) : rel \in RelsOf(s, "DEPENDS_ON", from, to)}

\* C4: after ingest calls that all completed, the instances list of the edge
\* A->B, as a set, is the set of instance names whose units contained A->B.
C4_MultiInstanceUnion ==
    (Quiescent /\ ~failedAny) =>
        \A from \in ModuleNames, to \in ModuleNames :
            Provenance(store, from, to) =
                {i \in InstanceNames : <<i, from, to>> \in asserted}

\* C4 witness: X and Y have both completed an ingest with the same edge.
C4_Witness ==
    /\ Quiescent /\ ~failedAny
    /\ \E from \in ModuleNames, to \in ModuleNames :
          /\ {<<"X", from, to>>, <<"Y", from, to>>} \subseteq asserted
          /\ Provenance(store, from, to) = {"X", "Y"}

\* nodes by label and name, relationships by type and ends with their
\* provenance as a set, each with its number of copies
Shape(s) ==
    [nodes |-> BagOfAll(LAMBDA n : [label |-> n.label, name |-> n.name], s.nodes),
     rels  |-> BagOfAll(LAMBDA rel : [type |-> rel.type, from |-> rel.from,
                                      to |-> rel.to,
                                      instances |-> Range(rel.instances)], s.rels)]

\* C5: two calls whose statements interleave leave the same nodes and edges,
\* with the same provenance sets, as the calls run one after the other; no
\* instances list holds a name twice.
C5_ConcurrentIngest ==
    (Quiescent /\ ~failedAny) =>
        /\ Shape(store) = Shape(seqStore)
        /\ \A rel \in Rels(store) : NoDuplicates(rel.instances)

\* C5 witness: both calls completed and their interleaving shows: the store
\* differs (in the order of a list, or in a version) from the calls run in
\* the order they were started.
C5_Witness ==
    /\ Quiescent /\ ~failedAny
    /\ \A r \in Slots : req[r].response.status = "success"
    /\ Graph(store) # Graph(seqStore)

\* C6: at most one Instance node and one Module node per name, and at most
\* one relationship of each type per ordered pair of end nodes.
C6_Uniqueness ==
    /\ \A n \in Nodes(store) :
          /\ CopiesIn(n, store.nodes) = 1
          /\ NodesOf(store, n.label, n.name) = {n}
    /\ \A rel \in Rels(store) :
          /\ CopiesIn(rel, store.rels) = 1
          /\ RelsOf(store, rel.type, rel.from, rel.to) = {rel}

\* C6 witness: both calls completed for the same instance and the same module.
C6_Witness ==
    /\ Quiescent /\ ~failedAny
    /\ \A r \in Slots : req[r].counts.modules_created = 1
    /\ Cardinality({rel \in Rels(store) : rel.type = "DEPLOYS"}) = 1

\* the version that the statement a handler awaits supplies for a module name
SuppliedVersions(q, name) ==
    IF q.pc = "modules"
    THEN IF q.unit.modules[q.mi].name = name
         THEN {GetOrUnknown(q.unit.modules[q.mi].version)}
         ELSE {}
    ELSE IF q.pc = "edges"
    THEN LET e == q.unit.edges[q.ei]
         IN  IF e.from_name = name THEN {GetOrUnknown(e.from_version)}
             ELSE IF e.to_name = name THEN {GetOrUnknown(e.to_version)}
             ELSE {}
    ELSE {}

\* C7: no step changes the version of an existing Module node, and a Module
\* node that a step creates has the version its creating statement supplied.
C7_VersionWriteOnce ==
    [][\A name \in ModuleNames :
          LET before == NodesOf(store, "Module", name)
              after == NodesOf(store', "Module", name)
          IN  /\ before # {} =>
                    {n.version : n \in after} = {n.version : n \in before}
              /\ (before = {} /\ after # {}) =>
                    \E r \in Slots :
                        /\ req'[r] # req[r]
                        /\ {n.version : n \in after} = SuppliedVersions(req[r], name)]_vars

\* C7 witness: A was created as the from-end of an edge (version v2) and a
\* module statement for A, which supplies another version, ran afterwards.
C7_Witness ==
    /\ \E n \in NodesOf(store, "Module", "A") : n.version = "v2"
    /\ \E rel \in Rels(store) : rel.type = "DEPLOYS" /\ rel.to = "A"

\* the edges of a unit as <<from, to>>
EdgePairs(edges) == [i \in 1..Len(edges) |-> <<edges[i].from_name, edges[i].to_name>>]

\* C8: an edge is forwarded to ingest_graph, as the labels of its two end
\* nodes, exactly when both of its endpoint ids are ids of the node list; a
\* dropped edge does not fail the request and is not counted in edgesCreated.
C8_EdgeResolution ==
    /\ (req[1].via = "router" /\ req[1].pc \in StmtPcs) =>
           EdgePairs(req[1].unit.edges) = req[1].resolvable
    /\ (req[1].via = "router" /\ req[1].response.status = "success") =>
           req[1].response.edges_created = req[1].resolvable_total

\* C9: a response whose status is not "success" or whose data is absent
\* causes no store statement, is not counted and does not fail the request;
\* processedInstances is the number of responses with status "success" and
\* data present.
C9_SkipOnFailureStatus ==
    [][/\ (req'[1].taken = req[1].taken + 1 /\ req'[1].eligible = req[1].eligible) =>
            /\ store' = store
            /\ req'[1].pc = "loop"
            /\ req'[1].processed_instances = req[1].processed_instances
            /\ req'[1].response = req[1].response
       /\ req'[1].response.status = "success" =>
            req'[1].response.processed_instances = req'[1].eligible]_vars

\* C9 witness: a batch of one skipped and one ingested response was answered.
C9_Witness ==
    /\ req[1].response.status = "success"
    /\ req[1].taken = 2
    /\ req[1].eligible = 1
    /\ req[1].response.processed_instances = 1

\* C10: once a store statement of an ingest call has failed, the request
\* issues no further statement, ingests no later instance and is answered
\* with a failure (status 500), never with a success.
C10_AbortOnStoreError ==
    [][/\ req'[1].errored =>
            /\ req'[1].pc = "responded"
            /\ req'[1].response.status = "error"
            /\ req'[1].response.code = 500
       /\ (req[1].errored /\ req'[1].errored) => store' = store]_vars

\* C10 witness: a statement failed after the call had written to the store.
C10_Witness ==
    /\ req[1].errored
    /\ req[1].response = Failure
    /\ \E rel \in Rels(store) : rel.type = "DEPLOYS"

\* what the statements of a call that have completed wrote is in the store
Visible(q) ==
    LET instance_name == q.unit.instance_name
    IN  /\ q.pc # "instance" => NodesOf(store, "Instance", instance_name) # {}
        /\ \A i \in 1..(q.mi - 1) :
               RelsOf(store, "DEPLOYS", instance_name, q.unit.modules[i].name) # {}
        /\ \A i \in 1..(q.ei - 1) :
               \E rel \in RelsOf(store, "DEPENDS_ON", q.unit.edges[i].from_name,
                                 q.unit.edges[i].to_name) :
                   instance_name \in Range(rel.instances)

\* C11: ingest is not atomic: in the middle of a call the store already holds
\* what the completed statements of the call wrote, and the step at which a
\* statement fails answers the request with a failure and leaves the store as
\* it was, with the writes of the call and of the earlier instances of the
\* batch in it (no rollback).
C11_NotAtomic ==
    /\ [](req[1].pc \in StmtPcs => Visible(req[1]))
    /\ [][(~req[1].errored /\ req'[1].errored) =>
              /\ store' = store
              /\ req'[1].response = Failure]_vars

\* C11 witness: the request has failed, and the store holds the instance of
\* the call that failed next to the instance ingested before it in the batch.
C11_Witness ==
    /\ req[1].errored
    /\ req[1].response = Failure
    /\ \A i \in InstanceNames : NodesOf(store, "Instance", i) # {}
    /\ \E rel \in Rels(store) : rel.type = "DEPENDS_ON"

\* C12: the counts a call returns are the entries of its lists whether or not
\* the modules and edges existed: modules_created and
\* instance_module_relationships are the length of the modules list,
\* dependencies_created the length of the edges list; the endpoint adds them
\* up over the calls and answers with the sums.
C12_CountsAreRecordsProcessed ==
    [][/\ (req'[1].processed_instances = req[1].processed_instances + 1) =>
            /\ req'[1].counts.modules_created = Len(req[1].unit.modules)
            /\ req'[1].counts.instance_module_relationships = Len(req[1].unit.modules)
            /\ req'[1].counts.dependencies_created = Len(req[1].unit.edges)
            /\ req'[1].total_modules_created =
                   req[1].total_modules_created + Len(req[1].unit.modules)
            /\ req'[1].total_dependencies_created =
                   req[1].total_dependencies_created + Len(req[1].unit.edges)
       /\ (req[1].pc = "loop" /\ req'[1].response.status = "success") =>
            /\ req'[1].response.nodes_created = req[1].total_modules_created
            /\ req'[1].response.edges_created = req[1].total_dependencies_created]_vars

\* C12 witness: a batch that ingested the same module and the same edge twice
\* was answered with nodes_created = 2 and edges_created = 2.
C12_Witness ==
    /\ req[1].response.status = "success"
    /\ req[1].response.nodes_created = 2
    /\ req[1].response.edges_created = 2
    /\ Cardinality({n \in Nodes(store) : n.label = "Module"}) = 1
    /\ Cardinality({rel \in Rels(store) : rel.type = "DEPENDS_ON"}) = 1

\* analyze_cycles has handed its caller something
Answered(q) == q.via = "analyze" /\ q.pc = "responded"

\* the degraded shape: nothing detected, a non-empty error
IsDegraded(report) ==
    /\ report.status = "returned"
    /\ ~report.cycles_detected
    /\ report.cycles = {}
    /\ report.responsible_instances = <<>>
    /\ report.error \notin {Absent, None, ""}

\* C13: analyze_cycles always returns a result, whatever the state of the store
\* and of the client: no exception reaches the caller, and a result that
\* follows an error has the degraded shape.
C13_NeverFailsCaller ==
    Answered(req[1]) =>
        /\ req[1].report.status = "returned"
        /\ (req[1].errored \/ req[1].probe_failed) => IsDegraded(req[1].report)

\* C14: when the probe of the capability fails, the result has the degraded
\* shape and no cycle-detection query has been sent.
C14_CapabilityDegradation ==
    /\ (req[1].via = "analyze" /\ req[1].pc \in {"cycle_query", "simple_query"}) =>
           ~req[1].probe_failed
    /\ (Answered(req[1]) /\ req[1].probe_failed) =>
           /\ IsDegraded(req[1].report)
           /\ req[1].cycle_queries = 0

\* C14 witness: the probe failed on a store that holds a dependency cycle.
C14_Witness ==
    /\ Answered(req[1])
    /\ req[1].probe_failed
    /\ req[1].report.error = "APOC procedures not available"
    /\ \E e \in DependsOn(store) : <<e[2], e[1]>> \in DependsOn(store)

\* the step at which analyze_cycles returns the report of a completed analysis
AnalysisSucceeds ==
    /\ req[1].pc = "simple_query"
    /\ req'[1].report.status = "returned"
    /\ req'[1].report.error = Absent

Ring == {<<"A", "B">>, <<"B", "C">>, <<"C", "A">>}

\* C15: on a store whose DEPENDS_ON edges are A->B, B->C, C->A the analysis
\* reports cycles_detected and exactly one cycle, a rotation of [A,B,C,A]; and
\* every reported cycle of k distinct modules is a list of k+1 names whose
\* first and last names are equal.
C15_CycleRoundTrip ==
    [][AnalysisSucceeds =>
          /\ DependsOn(store) = Ring =>
                /\ req'[1].report.cycles_detected
                /\ Cardinality(req'[1].report.cycles) = 1
                /\ req'[1].report.cycles \subseteq
                       {<<"A", "B", "C", "A">>, <<"B", "C", "A", "B">>,
                        <<"C", "A", "B", "C">>}
          /\ \A c \in req'[1].report.cycles :
                /\ Len(c) = Cardinality(Range(c)) + 1
                /\ c[1] = c[Len(c)]]_vars

\* the pairs <<a, c>> with a -> b in R and b -> c in S
Compose(R, S) == {<<p[1][1], p[2][2]>> : p \in {q \in R \X S : q[1][2] = q[2][1]}}

\* the pairs joined by a path of at most n + 1 edges of R
RECURSIVE PathsUpTo(_, _)
PathsUpTo(R, n) ==
    IF n = 0 THEN R ELSE PathsUpTo(R, n - 1) \cup Compose(PathsUpTo(R, n - 1), R)

\* the modules that lie on a directed DEPENDS_ON cycle
OnCycle(s) ==
    {m \in ModulesIn(s) : <<m, m>> \in PathsUpTo(DependsOn(s), Cardinality(ModulesIn(s)))}

\* the instances with a DEPLOYS relationship to one of the modules
Deployers(s, modules) ==
    {i \in InstanceNames : \E m \in modules : RelsOf(s, "DEPLOYS", i, m) # {}}

\* ascending order of the instance names
LexLess(a, b) == <<a, b>> \in {<<"X", "Y">>}

\* C16: when the analysis succeeds, responsible_instances holds exactly the
\* instances that DEPLOY a module lying on a detected cycle, each once, in
\* ascending order.
C16_ResponsibleInstances ==
    [][AnalysisSucceeds =>
          LET responsible == req'[1].report.responsible_instances
          IN  /\ Range(responsible) = Deployers(store, OnCycle(store))
              /\ Range(responsible) =
                     Deployers(store, UNION {Range(c) : c \in req'[1].report.cycles})
              /\ \A i, j \in 1..Len(responsible) :
                     i < j => LexLess(responsible[i], responsible[j])]_vars

\* C16 witness: an analysis has reported X and Y, which deploy modules of a
\* cycle that the store holds.
C16_Witness ==
    /\ Answered(req[1])
    /\ req[1].report.responsible_instances = <<"X", "Y">>
    /\ OnCycle(store) # {}

\* C17: inside one call the Instance statement runs before every module
\* statement and every module statement before every edge statement; every
\* DEPLOYS / DEPLOYED_BY relationship has its Instance and Module nodes and
\* every DEPENDS_ON / DEPENDS_BY relationship both its Module nodes.
C17_StepOrder ==
    /\ \A r \in Slots :
          /\ req[r].pc = "instance" =>
                /\ req[r].mi = 1 /\ req[r].ei = 1
                /\ req[r].counts.instances_processed = 0
          /\ req[r].pc = "modules" =>
                /\ req[r].counts.instances_processed = 1
                /\ req[r].ei = 1
          /\ req[r].pc = "edges" =>
                /\ req[r].counts.instances_processed = 1
                /\ req[r].mi = Len(req[r].unit.modules) + 1
    /\ \A rel \in Rels(store) :
          /\ rel.type = "DEPLOYS" =>
                /\ NodesOf(store, "Instance", rel.from) # {}
                /\ NodesOf(store, "Module", rel.to) # {}
          /\ rel.type = "DEPLOYED_BY" =>
                /\ NodesOf(store, "Module", rel.from) # {}
                /\ NodesOf(store, "Instance", rel.to) # {}
          /\ rel.type \in DepTypes =>
                /\ NodesOf(store, "Module", rel.from) # {}
                /\ NodesOf(store, "Module", rel.to) # {}

\* C17 witness: a call with modules and edges is at its second edge, after
\* another call has failed.
C17_Witness ==
    /\ failedAny
    /\ \E r \in Slots :
          /\ req[r].pc = "edges"
          /\ req[r].ei = 2
          /\ Len(req[r].unit.modules) = 1

\* C18: no step of an ingest call, completed or failed, removes a node or a
\* relationship or changes the created attribute (or any other attribute) of
\* one, but for the instances list of a DEPENDS_ON / DEPENDS_BY relationship.
C18_OnlyAdds ==
    [][/\ \A n \in Nodes(store) : CopiesIn(n, store'.nodes) >= CopiesIn(n, store.nodes)
       /\ \A rel \in Rels(store) :
             IF rel.type \in DepTypes
             THEN \E after \in RelsOf(store', rel.type, rel.from, rel.to) :
                     after.created = rel.created
             ELSE CopiesIn(rel, store'.rels) >= CopiesIn(rel, store.rels)
       /\ \A type \in DepTypes \cup {"DEPLOYS", "DEPLOYED_BY"} :
             Copies(store'.rels, {rel \in Rels(store') : rel.type = type}) >=
                Copies(store.rels, {rel \in Rels(store) : rel.type = type})]_vars

\* C18 witness: a call that failed later had appended its instance to an edge
\* that an earlier call created, and deployed a module that already existed.
C18_Witness ==
    /\ failedAny
    /\ Quiescent
    /\ \E rel \in Rels(store) :
          rel.type = "DEPENDS_BY" /\ Len(rel.instances) = 2 /\ rel.created < clock
    /\ \E d \in Rels(store), n \in Nodes(store) :
          /\ d.type = "DEPLOYS" /\ n.label = "Module" /\ n.name = d.to
          /\ n.created < d.created

\* nodes by label, name and version
VersionedNodes(s) == {<<n.label, n.name, n.version>> : n \in Nodes(s)}

\* relationships by type and ends, with their provenance as a set
ProvenanceSets(s) == {<<rel.type, rel.from, rel.to, Range(rel.instances)>> : rel \in Rels(s)}

\* C19: ingesting a unit with the entries of its modules list and of its
\* edges list in another order gives the same nodes, versions, relationships
\* and provenance sets.
C19_OrderIndependent ==
    /\ VersionedNodes(store) = VersionedNodes(once)
    /\ ProvenanceSets(store) = ProvenanceSets(once)

\* the source edges whose two ends resolve to one label, among the resolvable
SelfLoops(pairs) == SelectSeq(pairs, LAMBDA e : e[1] = e[2])

\* the step at which the statement of a self-loop edge completes
SelfLoopStored ==
    /\ req[1].pc = "edges"
    /\ req'[1] # req[1]
    /\ ~req'[1].errored
    /\ req[1].unit.edges[req[1].ei].from_name = req[1].unit.edges[req[1].ei].to_name

\* the store holds one DEPENDS_ON and one DEPENDS_BY relationship name -> name,
\* each with the instance once in its instances list
SelfLoopIn(s, name, instance_name) ==
    \A type \in DepTypes :
        /\ Copies(s.rels, RelsOf(s, type, name, name)) = 1
        /\ \A rel \in RelsOf(s, type, name, name) :
              /\ instance_name \in Range(rel.instances)
              /\ NoDuplicates(rel.instances)

C21_DetectionComplete ==
    [][AnalysisSucceeds =>
          /\ req'[1].report.cycles_detected = (OnCycle(store) # {})
          /\ OnCycle(store) = UNION {Range(c) : c \in req'[1].report.cycles}]_vars

\* C25: every result that analyze_cycles returns has cycles_detected exactly
\* when cycles is not empty, responsible instances only when cycles_detected,
\* no empty cycle, and with an error neither cycles_detected nor a cycle nor a
\* responsible instance.
C25_ReportConsistent ==
    (Answered(req[1]) /\ req[1].report.status = "returned") =>
        LET report == req[1].report
        IN  /\ report.cycles_detected = (report.cycles # {})
            /\ report.responsible_instances # <<>> => report.cycles_detected
            /\ \A c \in report.cycles : Len(c) > 0
            /\ report.error # Absent =>
                  /\ ~report.cycles_detected
                  /\ report.cycles = {}
                  /\ report.responsible_instances = <<>>

\* C25 witness: a result that lists two cycles and a responsible instance has
\* been returned.
C25_Witness ==
    /\ Answered(req[1])
    /\ req[1].report.cycles_detected
    /\ Cardinality(req[1].report.cycles) = 2
    /\ req[1].report.responsible_instances # <<>>
    /\ req[1].report.error = Absent

\* the version the Module node of a source node is to carry
VersionFor(src) == IF src.version = None THEN "unknown" ELSE src.version

\* C22: the Module node created for a source node that carries no version is
\* stored with version "unknown", and the one created for a source node that
\* carries a version is stored with that version.
C22_VersionDefault ==
    \A n \in Nodes(store) :
        n.label = "Module" =>
            \E src \in SrcNodes : src.label = n.name /\ n.version = VersionFor(src)

\* a handler at one of these positions has handed a statement to the client
Awaiting == StmtPcs \cup {"query"}

\* the step in which the handler of slot r calls ingest_graph / the passthrough
\* calls Neo4jDatabase.execute_query
GuardedCall(r) ==
    \/ req[r].pc = "loop" /\ req'[r].eligible = req[r].eligible + 1
    \/ started'[r] = started[r] + 1 /\ req'[r].via = "query"

Deploys(s, I, m) ==
    /\ NodesOf(s, "Instance", I) # {}
    /\ RelsOf(s, "DEPLOYS", I, m) # {}

\* C24: in every state that requests to the ingest endpoint produce, every
\* dependency relationship lists at least one instance, and every instance it
\* lists is in the store and DEPLOYS both of its ends.
C24_ProvenanceImpliesDeployment ==
    \A rel \in Rels(store) :
        rel.type \in DepTypes =>
            /\ Len(rel.instances) >= 1
            /\ \A i \in 1..Len(rel.instances) :
                  /\ Deploys(store, rel.instances[i], rel.from)
                  /\ Deploys(store, rel.instances[i], rel.to)

\* C24 witness: two instances have reported the same dependency of one module
\* on another.
C24_Witness ==
    \E rel \in Rels(store) :
        /\ rel.type = "DEPENDS_ON"
        /\ rel.from # rel.to
        /\ Len(rel.instances) = 2

====
